---------------------------- MODULE Spec2Model ----------------------------
(***************************************************************************)
(* A model of rest/server.go: the route registration and middleware       *)
(* composition layer of the rest server.                                  *)
(*                                                                         *)
(* Strings are sequences of one-character strings, so that len(), path    *)
(* joining and path cleaning are computed rather than assumed.            *)
(* A handler is a record [base, wraps]: the user handler `base` wrapped   *)
(* by the middlewares `wraps`, outermost first.                           *)
(***************************************************************************)
EXTENDS Naturals, Sequences, FiniteSets, TLC

VARIABLES
    routes0,    \* builder: the []Route handed to the builder
    r,          \* builder: the featuredRoutes under construction
    applied,    \* builder: the RouteOptions applied so far, in order
    panicked,   \* a panic has unwound the running call
    ms,         \* middleware: the []Middleware given to WithMiddlewares
    rsIn,       \* middleware: the routes given to WithMiddlewares
    rsOut,      \* middleware: the routes WithMiddlewares returned
    trace,      \* middleware: the events of one request through rsOut[1]
    server,     \* the *Server (NilServer before construction)
    err,        \* the error NewServer returned
    runOpts,    \* the RunOptions NewServer was called with
    log,        \* logx.Error entries and panics raised by Start, in order
    phase,      \* server life cycle: "new", "built", "failed", "exited", "running",
                \* "returned", "panicked"
    lastCall,   \* the last AddRoutes/AddRoute call: its arguments and outcome
    served,     \* the last request served: its token and what handled it
    mwPc,       \* middleware: "input", "composed", "wrapped" or "invoked"
    mw          \* middleware: the Middleware given to WithMiddleware

vars == <<routes0, r, applied, panicked, ms, rsIn, rsOut, trace,
          server, err, runOpts, log, phase, lastCall, served, mwPc, mw>>

builderVars == <<routes0, r, applied>>
mwVars == <<ms, rsIn, rsOut, trace, mwPc, mw>>
serverVars == <<server, err, runOpts, log, phase, lastCall, served>>

-----------------------------------------------------------------------------
(* Bounds *)

MaxPathLen == 2      \* generated paths and groups have at most this many characters
MaxSecretLen == 9    \* generated secrets have at most this many characters
MaxRoutes == 2       \* routes in one route sequence
MaxOpts == 2         \* RouteOptions applied to one featuredRoutes
MaxMws == 3          \* middlewares in one WithMiddlewares call
MaxRunOpts == 2      \* RunOptions in one NewServer call
MaxAdds == 1         \* AddRoutes/AddRoute calls on one server

(* Program constant: the least length validateSecret accepts. *)
MinSecretLen == 8

-----------------------------------------------------------------------------
(* Strings *)

Last(s) == s[Len(s)]
Front(s) == SubSeq(s, 1, Len(s) - 1)

RECURSIVE StrsOfLen(_, _)
StrsOfLen(alphabet, n) ==
    IF n = 0 THEN {<<>>}
    ELSE {Append(s, c) : s \in StrsOfLen(alphabet, n - 1), c \in alphabet}

StrsUpTo(alphabet, n) == UNION {StrsOfLen(alphabet, k) : k \in 0..n}

Rep(c, n) == [i \in 1..n |-> c]

SeqsUpTo(S, n) == UNION {[1..k -> S] : k \in 0..n}

Slash == "/"
Dot == <<".">>
DotDot == <<".", ".">>

API == <<"/", "a", "p", "i">>
V1 == <<"/", "v", "1">>
USERS == <<"/", "u", "s", "e", "r", "s">>
APIUSERS == <<"/", "a", "p", "i", "/", "u", "s", "e", "r", "s">>
V1APIUSERS == <<"/", "v", "1", "/", "a", "p", "i", "/", "u", "s", "e", "r", "s">>

-----------------------------------------------------------------------------
(* path.Join and path.Clean of the Go standard library, as WithPrefix uses *)
(* them.                                                                   *)

\* The non-empty elements of p between separators, in order.
RECURSIVE Components(_, _, _)
Components(p, i, cur) ==
    IF i > Len(p) THEN (IF cur = <<>> THEN <<>> ELSE <<cur>>)
    ELSE IF p[i] = Slash
         THEN (IF cur = <<>> THEN <<>> ELSE <<cur>>) \o Components(p, i + 1, <<>>)
         ELSE Components(p, i + 1, Append(cur, p[i]))

\* Drop "." elements; a ".." removes the element before it, is dropped at the
\* root, and is kept at the start of a relative path.
RECURSIVE Resolve(_, _, _)
Resolve(comps, stack, rooted) ==
    IF comps = <<>> THEN stack
    ELSE LET c == Head(comps)
             rest == Tail(comps)
         IN  IF c = Dot THEN Resolve(rest, stack, rooted)
             ELSE IF c = DotDot
                  THEN IF stack # <<>> /\ Last(stack) # DotDot
                       THEN Resolve(rest, Front(stack), rooted)
                       ELSE IF rooted THEN Resolve(rest, stack, rooted)
                       ELSE Resolve(rest, Append(stack, DotDot), rooted)
                  ELSE Resolve(rest, Append(stack, c), rooted)

RECURSIVE JoinComponents(_)
JoinComponents(comps) ==
    IF comps = <<>> THEN <<>>
    ELSE IF Len(comps) = 1 THEN Head(comps)
    ELSE Head(comps) \o <<Slash>> \o JoinComponents(Tail(comps))

Clean(p) ==
    IF p = <<>> THEN Dot
    ELSE LET rooted == p[1] = Slash
             out == (IF rooted THEN <<Slash>> ELSE <<>>)
                    \o JoinComponents(Resolve(Components(p, 1, <<>>), <<>>, rooted))
         IN  IF out = <<>> THEN Dot ELSE out

\* path.Join(a, b): empty elements are ignored, the rest joined by a
\* separator and cleaned; the join of nothing but empty elements is empty.
Join(a, b) ==
    IF a = <<>> /\ b = <<>> THEN <<>>
    ELSE IF a = <<>> THEN Clean(b)
    ELSE IF b = <<>> THEN Clean(a)
    ELSE Clean(a \o <<Slash>> \o b)

-----------------------------------------------------------------------------
(* Routes and featuredRoutes *)

Handler(base) == [base |-> base, wraps |-> <<>>]

Route(method, path, handler) == [Method |-> method, Path |-> path, Handler |-> handler]

NoSignature == [Strict |-> FALSE, Expiry |-> 0, PrivateKeys |-> <<>>]

\* featuredRoutes{routes: rs}: every other field has its zero value.
featuredRoutes(rs) ==
    [routes |-> rs,
     priority |-> FALSE,
     jwt |-> [enabled |-> FALSE, secret |-> <<>>, prevSecret |-> <<>>],
     signature |-> [enabled |-> FALSE, Strict |-> FALSE, Expiry |-> 0, PrivateKeys |-> <<>>]]

\* The outcome of running a RouteOption on a featuredRoutes: either it
\* returned and left fr, or it panicked having left fr.
Returned(fr) == [ok |-> TRUE, r |-> fr]
Panicked(fr) == [ok |-> FALSE, r |-> fr]

validateSecret_ShortBy1(secret) == Len(secret) >= MinSecretLen - 1
\* validateSecret returns (TRUE) or panics (FALSE).
validateSecret(secret) == Len(secret) >= MinSecretLen

WithJwt_ClearsPrev(secret, fr) ==
    IF ~validateSecret(secret) THEN Panicked(fr)
    ELSE Returned([fr EXCEPT !.jwt = [enabled |-> TRUE, secret |-> secret,
                                      prevSecret |-> <<>>]])
WithJwt_SetsThenValidates(secret, fr) ==
    LET set == [fr EXCEPT !.jwt.enabled = TRUE, !.jwt.secret = secret]
    IN  IF ~validateSecret(secret) THEN Panicked(set) ELSE Returned(set)
WithJwt(secret, fr) ==
    IF ~validateSecret(secret) THEN Panicked(fr)
    ELSE Returned([fr EXCEPT !.jwt.enabled = TRUE, !.jwt.secret = secret])

WithJwtTransition_ChecksPrev(secret, prevSecret, fr) ==
    IF ~validateSecret(secret) \/ ~validateSecret(prevSecret) THEN Panicked(fr)
    ELSE Returned([fr EXCEPT !.jwt.enabled = TRUE, !.jwt.secret = secret,
                             !.jwt.prevSecret = prevSecret])
WithJwtTransition_DropsPrev(secret, prevSecret, fr) ==
    IF ~validateSecret(secret) THEN Panicked(fr)
    ELSE Returned([fr EXCEPT !.jwt.enabled = TRUE, !.jwt.secret = secret])
WithJwtTransition(secret, prevSecret, fr) ==
    IF ~validateSecret(secret) THEN Panicked(fr)
    ELSE Returned([fr EXCEPT !.jwt.enabled = TRUE, !.jwt.secret = secret,
                             !.jwt.prevSecret = prevSecret])

WithPrefix_Suffix(group, fr) ==
    Returned([fr EXCEPT !.routes =
        [i \in 1..Len(fr.routes) |->
            Route(fr.routes[i].Method, Join(fr.routes[i].Path, group), fr.routes[i].Handler)]])
WithPrefix_Concat(group, fr) ==
    Returned([fr EXCEPT !.routes =
        [i \in 1..Len(fr.routes) |->
            Route(fr.routes[i].Method, group \o fr.routes[i].Path, fr.routes[i].Handler)]])
WithPrefix(group, fr) ==
    Returned([fr EXCEPT !.routes =
        [i \in 1..Len(fr.routes) |->
            Route(fr.routes[i].Method, Join(group, fr.routes[i].Path), fr.routes[i].Handler)]])

WithPriority_ResetsJwt(fr) ==
    Returned([fr EXCEPT !.priority = TRUE, !.jwt.enabled = FALSE])
WithPriority(fr) == Returned([fr EXCEPT !.priority = TRUE])

WithSignature_KeepsFirst(signature, fr) ==
    IF fr.signature.enabled THEN Returned(fr)
    ELSE Returned([fr EXCEPT !.signature = [enabled |-> TRUE,
                                            Strict |-> signature.Strict,
                                            Expiry |-> signature.Expiry,
                                            PrivateKeys |-> signature.PrivateKeys]])
WithSignature(signature, fr) ==
    Returned([fr EXCEPT !.signature = [enabled |-> TRUE,
                                       Strict |-> signature.Strict,
                                       Expiry |-> signature.Expiry,
                                       PrivateKeys |-> signature.PrivateKeys]])

(* A RouteOption value: the closure an option constructor returned, as the *)
(* constructor's name and the arguments it captured.                      *)
RouteOption(kind, secret, prevSecret, group, signature) ==
    [kind |-> kind, secret |-> secret, prevSecret |-> prevSecret,
     group |-> group, signature |-> signature]

OptJwt(secret) == RouteOption("WithJwt", secret, <<>>, <<>>, NoSignature)
OptJwtTransition(secret, prevSecret) ==
    RouteOption("WithJwtTransition", secret, prevSecret, <<>>, NoSignature)
OptPrefix(group) == RouteOption("WithPrefix", <<>>, <<>>, group, NoSignature)
OptPriority == RouteOption("WithPriority", <<>>, <<>>, <<>>, NoSignature)
OptSignature(signature) == RouteOption("WithSignature", <<>>, <<>>, <<>>, signature)

\* opt(&r): calling the closure.
ApplyOption(opt, fr) ==
    CASE opt.kind = "WithJwt" -> WithJwt(opt.secret, fr)
      [] opt.kind = "WithJwtTransition" -> WithJwtTransition(opt.secret, opt.prevSecret, fr)
      [] opt.kind = "WithPrefix" -> WithPrefix(opt.group, fr)
      [] opt.kind = "WithPriority" -> WithPriority(fr)
      [] opt.kind = "WithSignature" -> WithSignature(opt.signature, fr)

\* for _, opt := range opts { opt(&r) }: left to right, stopping at a panic.
RECURSIVE ApplyOptions(_, _)
ApplyOptions(opts, fr) ==
    IF opts = <<>> THEN Returned(fr)
    ELSE LET first == ApplyOption(Head(opts), fr)
         IN  IF first.ok THEN ApplyOptions(Tail(opts), first.r) ELSE first


-----------------------------------------------------------------------------
(* Inputs of the builder phase *)

PathChars == {Slash, "a"}

Paths == StrsUpTo(PathChars, MaxPathLen) \cup {Dot, DotDot, <<"a", "/", ".", ".">>, USERS}

Groups == StrsUpTo(PathChars, MaxPathLen) \cup {DotDot, API, V1}

\* Secrets of every length up to MaxSecretLen.
Secrets == {Rep("s", n) : n \in 0..MaxSecretLen}

\* Previous secrets: none, one character, and one of the least valid length.
PrevSecrets == {<<>>, <<"p">>, Rep("p", MinSecretLen)}

SignatureConfs ==
    {[Strict |-> strict, Expiry |-> expiry, PrivateKeys |-> keys] :
        strict \in BOOLEAN, expiry \in {60, 3600}, keys \in {<<"key1">>, <<"key1", "key2">>}}

H1 == Handler("h1")
H2 == Handler("h2")
Methods == <<"GET", "POST", "PUT", "DELETE">>

\* Route sequences of every length up to MaxRoutes.
RouteLists ==
    {[i \in 1..n |-> Route(Methods[i], (IF i = 1 THEN USERS ELSE <<Slash>>),
                           Handler(IF i = 1 THEN "h1" ELSE "h2"))] : n \in 0..MaxRoutes}

\* Route sequences over every path: none, one route, and two routes.
PrefixRouteLists ==
    {<<>>} \cup {<<Route("GET", p, H1)>> : p \in Paths}
           \cup {<<Route("GET", USERS, H1), Route("POST", p, H2)>> : p \in Paths}

BuilderGroups == {<<>>, <<Slash>>, API, V1}

NoCall == [fn |-> "", rs |-> <<>>, opts |-> <<>>, ok |-> TRUE,
           r |-> featuredRoutes(<<>>)]
NoRequest == [made |-> FALSE, set |-> 0, route |-> 0, token |-> <<>>,
              attempts |-> <<>>, by |-> "", callback |-> ""]
NilRouter == [name |-> "nil", notFound |-> "nil", notAllowed |-> "nil"]
NilServer ==
    [nil |-> TRUE,
     ngin |-> [tlsConfig |-> "nil", unauthorizedCallback |-> "nil",
               unsignedCallback |-> "nil", routes |-> <<>>],
     opts |-> [start |-> [op |-> "Start", router |-> NilRouter]]]

BuilderIdle ==
    /\ routes0 = <<>> /\ r = featuredRoutes(<<>>) /\ applied = <<>>
MwIdle ==
    /\ ms = <<>> /\ rsIn = <<>> /\ rsOut = <<>> /\ trace = <<>> /\ mwPc = "input"
    /\ mw = "nil"
ServerIdle ==
    /\ server = NilServer /\ err = "nil" /\ runOpts = <<>> /\ log = <<>>
    /\ phase = "new" /\ lastCall = NoCall /\ served = NoRequest

-----------------------------------------------------------------------------
(* The builder phase on one featuredRoutes: each step calls one RouteOption *)
(* on r, as the loop of Server.AddRoutes does; a panic ends the phase.      *)

CallOption(opt) ==
    /\ ~panicked
    /\ LET res == ApplyOption(opt, r)
       IN  /\ r' = res.r
           /\ panicked' = ~res.ok
    /\ applied' = Append(applied, opt)
    /\ UNCHANGED <<routes0, mwVars, serverVars>>

CallWithJwt(secret) == CallOption(OptJwt(secret))
CallWithJwtTransition(secret, prevSecret) == CallOption(OptJwtTransition(secret, prevSecret))
CallWithPrefix(group) == CallOption(OptPrefix(group))
CallWithPriority == CallOption(OptPriority)
CallWithSignature(signature) == CallOption(OptSignature(signature))

InitRoutes ==
    /\ routes0 \in RouteLists
    /\ r = featuredRoutes(routes0)
    /\ applied = <<>>
    /\ panicked = FALSE
    /\ MwIdle /\ ServerIdle

NextRoutes ==
    /\ Len(applied) < MaxOpts
    /\ \/ \E secret \in Secrets : CallWithJwt(secret)
       \/ \E secret \in Secrets, prevSecret \in PrevSecrets :
              CallWithJwtTransition(secret, prevSecret)
       \/ \E group \in BuilderGroups : CallWithPrefix(group)
       \/ CallWithPriority
       \/ \E signature \in SignatureConfs : CallWithSignature(signature)

SpecRoutes == InitRoutes /\ [][NextRoutes]_vars

(* The same phase with WithPrefix alone, over every group and path. *)
InitPrefix ==
    /\ routes0 \in PrefixRouteLists
    /\ r = featuredRoutes(routes0)
    /\ applied = <<>>
    /\ panicked = FALSE
    /\ MwIdle /\ ServerIdle

NextPrefix ==
    /\ Len(applied) < MaxOpts
    /\ \E group \in Groups : CallWithPrefix(group)

SpecPrefix == InitPrefix /\ [][NextPrefix]_vars

(* The same phase with at most one option of each of the kinds WithPrefix, *)
(* WithPriority, WithJwt and WithSignature, in every order.                *)
Kinds(opts) == {opts[i].kind : i \in 1..Len(opts)}

NextCommute ==
    \/ \E secret \in Secrets :
           "WithJwt" \notin Kinds(applied) /\ CallWithJwt(secret)
    \/ \E group \in BuilderGroups :
           "WithPrefix" \notin Kinds(applied) /\ CallWithPrefix(group)
    \/ "WithPriority" \notin Kinds(applied) /\ CallWithPriority
    \/ \E signature \in SignatureConfs :
           "WithSignature" \notin Kinds(applied) /\ CallWithSignature(signature)

SpecCommute == InitRoutes /\ [][NextCommute]_vars

-----------------------------------------------------------------------------
(* Properties of the builder phase *)

OptionsCalled == applied # <<>>
LastOption == Last(applied)

\* C2: WithJwt(secret) panics when len(secret) < 8; when len(secret) >= 8 it
\* returns and leaves jwt.enabled = true and jwt.secret = secret.
C2_JwtSecretLength ==
    (OptionsCalled /\ LastOption.kind = "WithJwt") =>
        /\ Len(LastOption.secret) < 8 => panicked
        /\ Len(LastOption.secret) >= 8 =>
               /\ ~panicked
               /\ r.jwt.enabled
               /\ r.jwt.secret = LastOption.secret

\* A secret of length 8 was accepted and a secret of length 7 then refused.
C2_Witness ==
    /\ Len(applied) = 2
    /\ applied[1] = OptJwt(Rep("s", 8))
    /\ applied[2] = OptJwt(Rep("s", 7))
    /\ panicked
    /\ r.jwt.enabled /\ r.jwt.secret = Rep("s", 8)

\* C3: WithJwtTransition(secret, prevSecret) panics exactly when
\* len(secret) < 8, whatever prevSecret is; otherwise it leaves jwt.enabled =
\* true, jwt.secret = secret and jwt.prevSecret = prevSecret.
C3_JwtTransitionChecksSecretOnly ==
    (OptionsCalled /\ LastOption.kind = "WithJwtTransition") =>
        /\ panicked <=> Len(LastOption.secret) < 8
        /\ ~panicked =>
               /\ r.jwt.enabled
               /\ r.jwt.secret = LastOption.secret
               /\ r.jwt.prevSecret = LastOption.prevSecret

\* A one-character prevSecret was accepted with a valid secret.
C3_Witness ==
    /\ OptionsCalled
    /\ LastOption.kind = "WithJwtTransition"
    /\ Len(LastOption.secret) >= 8
    /\ Len(LastOption.prevSecret) = 1
    /\ ~panicked
    /\ r.jwt.prevSecret = LastOption.prevSecret

\* join(g_n, ... join(g_1, p)): the groups of opts joined onto p, first to last.
RECURSIVE PrefixedBy(_, _)
PrefixedBy(opts, p) ==
    IF opts = <<>> THEN p
    ELSE LET g == Last(opts).group
             q == PrefixedBy(Front(opts), p)
         IN  IF g = <<>> /\ q = <<>> THEN <<>>
             ELSE IF g = <<>> THEN Clean(q)
             ELSE IF q = <<>> THEN Clean(g)
             ELSE Clean(g \o <<Slash>> \o q)

\* C8: Prefix options compose left to right: after Prefix(g1) then Prefix(g2)
\* each route's path is join(g2, join(g1, original path)), and the number and
\* order of the routes, their methods and their handlers are unchanged.
C8_PrefixComposes ==
    /\ Len(r.routes) = Len(routes0)
    /\ \A i \in 1..Len(routes0) :
           /\ r.routes[i].Path = PrefixedBy(applied, routes0[i].Path)
           /\ r.routes[i].Method = routes0[i].Method
           /\ r.routes[i].Handler = routes0[i].Handler
           /\ (routes0[i].Path = USERS /\ applied = <<OptPrefix(API)>>)
                  => r.routes[i].Path = APIUSERS
           /\ (routes0[i].Path = USERS /\ applied = <<OptPrefix(API), OptPrefix(V1)>>)
                  => r.routes[i].Path = V1APIUSERS

\* {GET, "/users"} after Prefix("/api") and Prefix("/v1").
C8_Witness ==
    /\ applied = <<OptPrefix(API), OptPrefix(V1)>>
    /\ Len(r.routes) = 2
    /\ routes0[1] = Route("GET", USERS, H1)
    /\ r.routes[1] = Route("GET", V1APIUSERS, H1)

NoDuplicateSeparator(p) == \A i \in 1..(Len(p) - 1) : ~(p[i] = Slash /\ p[i + 1] = Slash)
NoTrailingSeparator(p) == (Len(p) > 0 /\ p[Len(p)] = Slash) => p = <<Slash>>

\* C9: after Prefix(group) no path has two consecutive separators or ends
\* with a separator (the root path aside), and methods and handlers are those
\* of the original routes.
C9_PrefixNormalizes ==
    OptionsCalled =>
        \A i \in 1..Len(r.routes) :
            /\ NoDuplicateSeparator(r.routes[i].Path)
            /\ NoTrailingSeparator(r.routes[i].Path)
            /\ r.routes[i].Method = routes0[i].Method
            /\ r.routes[i].Handler = routes0[i].Handler

\* A group with a trailing separator joined to a path with a leading and a
\* trailing separator.
C9_Witness ==
    /\ applied = <<OptPrefix(<<"a", Slash>>)>>
    /\ Len(routes0) = 1
    /\ routes0[1].Path = <<Slash, Slash>>
    /\ r.routes[1].Path = <<"a">>

Permuted(opts, f) == [i \in 1..Len(opts) |-> opts[f[i]]]

\* C10: one option of each of the kinds Prefix, Priority, JWT and Signature,
\* applied in any order, gives the same featuredRoutes.
C10_OptionsCommute ==
    ~panicked =>
        \A f \in Permutations(1..Len(applied)) :
            LET res == ApplyOptions(Permuted(applied, f), featuredRoutes(routes0))
            IN  res.ok /\ res.r = r

\* All four kinds were applied to a non-empty route sequence.
C10_Witness ==
    /\ Len(applied) = 4
    /\ ~panicked
    /\ applied[1].kind = "WithPriority"
    /\ applied[4].kind = "WithPrefix"
    /\ applied[4].group = API
    /\ Len(r.routes) >= 1
    /\ r.jwt.enabled /\ r.priority /\ r.signature.enabled
    /\ r.routes[1].Path = APIUSERS

-----------------------------------------------------------------------------
(* Middleware composition *)

\* middleware(handler): the handler that runs m around handler.
Wrap(m, handler) == [handler EXCEPT !.wraps = <<m>> \o @]

WithMiddleware(middleware, rs) ==
    [i \in 1..Len(rs) |-> Route(rs[i].Method, rs[i].Path, Wrap(middleware, rs[i].Handler))]

WithMiddlewareCall_InPlace(middleware, rs) ==
    [routes |-> WithMiddleware(middleware, rs), rs |-> WithMiddleware(middleware, rs)]
\* The call WithMiddleware(middleware, rs...): the routes it returns, and the
\* caller's rs after it (routes is a new slice; rs is only read).
WithMiddlewareCall(middleware, rs) ==
    [routes |-> WithMiddleware(middleware, rs), rs |-> rs]

\* for i := len(ms) - 1; i >= 0; i-- { rs = WithMiddleware(ms[i], rs...) },
\* with i counted from 1.
RECURSIVE WithMiddlewaresFrom(_, _, _)
WithMiddlewaresFrom(mws, i, rs) ==
    IF i < 1 THEN rs
    ELSE WithMiddlewaresFrom(mws, i - 1, WithMiddleware(mws[i], rs))

WithMiddlewares_NilWhenEmpty(mws, rs) ==
    IF mws = <<>> THEN <<>> ELSE WithMiddlewaresFrom(mws, Len(mws), rs)
RECURSIVE WithMiddlewares_Forward(_, _)
WithMiddlewares_Forward(mws, rs) ==
    IF mws = <<>> THEN rs
    ELSE WithMiddlewares_Forward(Tail(mws), WithMiddleware(Head(mws), rs))
WithMiddlewares(mws, rs) == WithMiddlewaresFrom(mws, Len(mws), rs)

Event(what, who) == [ev |-> what, by |-> who]

\* One request through handler: each middleware runs its part before the
\* next handler, calls it once, then runs its part after it.
RECURSIVE ServeHTTP(_)
ServeHTTP(handler) ==
    IF handler.wraps = <<>> THEN <<Event("handler", handler.base)>>
    ELSE <<Event("pre", Head(handler.wraps))>>
         \o ServeHTTP([handler EXCEPT !.wraps = Tail(@)])
         \o <<Event("post", Head(handler.wraps))>>

Middlewares == {"m1", "m2", "m3"}

InitMw ==
    /\ ms \in SeqsUpTo(Middlewares, MaxMws)
    /\ rsIn \in RouteLists
    /\ rsOut = <<>>
    /\ trace = <<>>
    /\ mwPc = "input"
    /\ mw = "nil"
    /\ panicked = FALSE
    /\ BuilderIdle /\ ServerIdle

\* rsOut := WithMiddlewares(ms, rsIn...)
CallWithMiddlewares ==
    /\ mwPc = "input"
    /\ rsOut' = WithMiddlewares(ms, rsIn)
    /\ mwPc' = "composed"
    /\ UNCHANGED <<ms, rsIn, trace, mw, panicked, builderVars, serverVars>>

\* rsOut := WithMiddleware(middleware, rsIn...)
CallWithMiddleware(middleware) ==
    /\ mwPc = "input"
    /\ LET res == WithMiddlewareCall(middleware, rsIn)
       IN  /\ rsOut' = res.routes
           /\ rsIn' = res.rs
    /\ mw' = middleware
    /\ mwPc' = "wrapped"
    /\ UNCHANGED <<ms, trace, panicked, builderVars, serverVars>>

\* A request is dispatched to the handler of one of the returned routes.
Request(i) ==
    /\ mwPc = "composed"
    /\ trace' = <<i>> \o ServeHTTP(rsOut[i].Handler)
    /\ mwPc' = "invoked"
    /\ UNCHANGED <<ms, rsIn, rsOut, mw, panicked, builderVars, serverVars>>

NextMw ==
    \/ CallWithMiddlewares
    \/ \E middleware \in Middlewares : CallWithMiddleware(middleware)
    \/ \E i \in 1..Len(rsOut) : Request(i)

SpecMw == InitMw /\ [][NextMw]_vars

\* C1: a request through a route of WithMiddlewares([m1..mn], routes) runs
\* m1-pre, ..., mn-pre, the original handler, mn-post, ..., m1-post, in that
\* order: the first middleware is the outermost wrapper.
C1_FirstMiddlewareOutermost ==
    mwPc = "invoked" =>
        LET n == Len(ms)
            i == trace[1]
            events == Tail(trace)
        IN  /\ Len(events) = 2 * n + 1
            /\ \A k \in 1..n : events[k] = Event("pre", ms[k])
            /\ events[n + 1] = Event("handler", rsIn[i].Handler.base)
            /\ \A k \in 1..n : events[2 * n + 2 - k] = Event("post", ms[k])

\* Three distinct middlewares around the handler of the first route.
C1_Witness ==
    /\ mwPc = "invoked"
    /\ ms = <<"m1", "m2", "m3">>
    /\ Tail(trace) = <<Event("pre", "m1"), Event("pre", "m2"), Event("pre", "m3"),
                       Event("handler", "h1"),
                       Event("post", "m3"), Event("post", "m2"), Event("post", "m1")>>

-----------------------------------------------------------------------------
(* The server: NewServer, RunOptions, Start *)

\* router.NewRouter(): no not-found and no not-allowed handler set.
NewRouter == [name |-> "router.NewRouter", notFound |-> "nil", notAllowed |-> "nil"]
SetNotFoundHandler(rt, handler) == [rt EXCEPT !.notFound = handler]
SetNotAllowedHandler(rt, handler) == [rt EXCEPT !.notAllowed = handler]

\* newEngine(c): nothing configured, no routes.
newEngine ==
    [tlsConfig |-> "nil", unauthorizedCallback |-> "nil", unsignedCallback |-> "nil",
     routes |-> <<>>]
setTlsConfig(ngin, cfg) == [ngin EXCEPT !.tlsConfig = cfg]
SetUnauthorizedCallback(ngin, callback) == [ngin EXCEPT !.unauthorizedCallback = callback]
SetUnsignedCallback(ngin, callback) == [ngin EXCEPT !.unsignedCallback = callback]
EngineAddRoutes(ngin, fr) == [ngin EXCEPT !.routes = Append(@, fr)]

(* A RunOption value: the closure a constructor returned, as the name of   *)
(* the constructor, the argument it was given and the router it captured. *)
RunOption(ctor, value, router) == [ctor |-> ctor, value |-> value, router |-> router]

WithTLSConfig(cfg) == RunOption("WithTLSConfig", cfg, NewRouter)
WithUnauthorizedCallback(callback) == RunOption("WithUnauthorizedCallback", callback, NewRouter)
WithUnsignedCallback(callback) == RunOption("WithUnsignedCallback", callback, NewRouter)
WithRouter(router) == RunOption("WithRouter", router.name, router)
\* rt := router.NewRouter(); rt.SetNotFoundHandler(handler); return WithRouter(rt)
WithNotFoundHandler(handler) ==
    [WithRouter(SetNotFoundHandler(NewRouter, handler))
        EXCEPT !.ctor = "WithNotFoundHandler", !.value = handler]
WithNotAllowedHandler(handler) ==
    [WithRouter(SetNotAllowedHandler(NewRouter, handler))
        EXCEPT !.ctor = "WithNotAllowedHandler", !.value = handler]

RouterCtors == {"WithRouter", "WithNotFoundHandler", "WithNotAllowedHandler"}

\* opt(server): calling the closure.
ApplyRunOption_SharedSetter(opt, srv) ==
    CASE opt.ctor = "WithTLSConfig" ->
             [srv EXCEPT !.ngin = setTlsConfig(@, opt.value)]
      [] opt.ctor = "WithUnauthorizedCallback" ->
             [srv EXCEPT !.ngin = SetUnauthorizedCallback(@, opt.value)]
      [] opt.ctor = "WithUnsignedCallback" ->
             [srv EXCEPT !.ngin = SetUnauthorizedCallback(@, opt.value)]
      [] opt.ctor \in RouterCtors ->
             [srv EXCEPT !.opts.start = [op |-> "StartWithRouter", router |-> opt.router]]
ApplyRunOption_FirstRouterWins(opt, srv) ==
    CASE opt.ctor = "WithTLSConfig" ->
             [srv EXCEPT !.ngin = setTlsConfig(@, opt.value)]
      [] opt.ctor = "WithUnauthorizedCallback" ->
             [srv EXCEPT !.ngin = SetUnauthorizedCallback(@, opt.value)]
      [] opt.ctor = "WithUnsignedCallback" ->
             [srv EXCEPT !.ngin = SetUnsignedCallback(@, opt.value)]
      [] opt.ctor \in RouterCtors ->
             IF srv.opts.start.op = "StartWithRouter" THEN srv
             ELSE [srv EXCEPT !.opts.start = [op |-> "StartWithRouter", router |-> opt.router]]
ApplyRunOption(opt, srv) ==
    CASE opt.ctor = "WithTLSConfig" ->
             [srv EXCEPT !.ngin = setTlsConfig(@, opt.value)]
      [] opt.ctor = "WithUnauthorizedCallback" ->
             [srv EXCEPT !.ngin = SetUnauthorizedCallback(@, opt.value)]
      [] opt.ctor = "WithUnsignedCallback" ->
             [srv EXCEPT !.ngin = SetUnsignedCallback(@, opt.value)]
      [] opt.ctor \in RouterCtors ->
             [srv EXCEPT !.opts.start = [op |-> "StartWithRouter", router |-> opt.router]]

\* for _, opt := range opts { opt(server) }
RECURSIVE ApplyRunOptions(_, _)
ApplyRunOptions(opts, srv) ==
    IF opts = <<>> THEN srv
    ELSE ApplyRunOptions(Tail(opts), ApplyRunOption(Head(opts), srv))

\* The SetUp error is returned next to a server that was built all the same.
NewServer_ServerOnError(setUp, opts) ==
    [server |-> ApplyRunOptions(opts,
                    [nil |-> FALSE,
                     ngin |-> newEngine,
                     opts |-> [start |-> [op |-> "Start", router |-> NewRouter]]]),
     err |-> setUp]

\* NewServer(c, opts...), where setUp is what c.SetUp() returns.
NewServer(setUp, opts) ==
    IF setUp # "nil" THEN [server |-> NilServer, err |-> setUp]
    ELSE [server |-> ApplyRunOptions(opts,
                        [nil |-> FALSE,
                         ngin |-> newEngine,
                         opts |-> [start |-> [op |-> "Start", router |-> NewRouter]]]),
          err |-> "nil"]

LogEntry(what, e) == [ev |-> what, err |-> e]

\* s.opts.start(s.ngin): the engine operation the start strategy invokes,
\* srv.Start() or srv.StartWithRouter(router).
EngineStart(start) ==
    IF start.op = "StartWithRouter"
    THEN [ev |-> "StartWithRouter", err |-> "nil", router |-> start.router]
    ELSE LogEntry("Start", "nil")

handleError_NilOnly(e) ==
    IF e = "nil" THEN <<>>
    ELSE <<LogEntry("logx.Error", e), LogEntry("panic", e)>>
\* What handleError(err) does, in order; it panics if the last entry is a panic.
handleError(e) ==
    IF e = "nil" \/ e = "http.ErrServerClosed" THEN <<>>
    ELSE <<LogEntry("logx.Error", e), LogEntry("panic", e)>>

TLSConfigs == {"tls1", "tls2"}
UnauthorizedCallbacks == {"unauthorized1", "unauthorized2"}
UnsignedCallbacks == {"unsigned1", "unsigned2"}
NotFoundHandlers == {"notFound1", "notFound2"}
NotAllowedHandlers == {"notAllowed1", "notAllowed2"}
CustomRouter == [name |-> "custom", notFound |-> "nil", notAllowed |-> "nil"]

RunOptions ==
    {WithTLSConfig(cfg) : cfg \in TLSConfigs}
    \cup {WithUnauthorizedCallback(cb) : cb \in UnauthorizedCallbacks}
    \cup {WithUnsignedCallback(cb) : cb \in UnsignedCallbacks}
    \cup {WithNotFoundHandler(h) : h \in NotFoundHandlers}
    \cup {WithNotAllowedHandler(h) : h \in NotAllowedHandlers}
    \cup {WithRouter(CustomRouter)}

SetUpResults == {"nil", "setup failed"}
StartResults == {"nil", "http.ErrServerClosed", "listen failed"}

Init ==
    /\ server = NilServer
    /\ err = "nil"
    /\ runOpts = <<>>
    /\ log = <<>>
    /\ phase = "new"
    /\ lastCall = NoCall
    /\ served = NoRequest
    /\ panicked = FALSE
    /\ BuilderIdle /\ MwIdle

\* server, err := NewServer(c, opts...)
CallNewServer(setUp, opts) ==
    /\ phase = "new"
    /\ LET res == NewServer(setUp, opts)
       IN  /\ server' = res.server
           /\ err' = res.err
           /\ phase' = IF res.err = "nil" THEN "built" ELSE "failed"
    /\ runOpts' = opts
    /\ UNCHANGED <<log, lastCall, served, panicked, builderVars, mwVars>>

\* server := MustNewServer(c, opts...): log.Fatal(err) ends the process.
CallMustNewServer(setUp, opts) ==
    /\ phase = "new"
    /\ LET res == NewServer(setUp, opts)
       IN  /\ server' = res.server
           /\ err' = res.err
           /\ phase' = IF res.err = "nil" THEN "built" ELSE "exited"
           /\ log' = IF res.err = "nil" THEN log ELSE <<LogEntry("log.Fatal", res.err)>>
    /\ runOpts' = opts
    /\ UNCHANGED <<lastCall, served, panicked, builderVars, mwVars>>

\* server.Start() is called: s.opts.start(s.ngin) runs the start strategy,
\* which serves requests until it returns.
Start ==
    /\ phase = "built" /\ ~panicked
    /\ log' = Append(log, EngineStart(server.opts.start))
    /\ phase' = "running"
    /\ UNCHANGED <<server, err, runOpts, lastCall, served, panicked, builderVars, mwVars>>

\* The start strategy returns result and Start passes it to handleError.
StartReturn(result) ==
    /\ phase = "running"
    /\ ~served.made
    /\ LET did == handleError(result)
       IN  /\ log' = log \o <<LogEntry("returned", result)>> \o did
           /\ panicked' = (did # <<>> /\ Last(did).ev = "panic")
           /\ phase' = IF did # <<>> /\ Last(did).ev = "panic" THEN "panicked" ELSE "returned"
    /\ UNCHANGED <<server, err, runOpts, lastCall, served, builderVars, mwVars>>

\* server.Stop(): logx.Close()
Stop ==
    /\ phase \in {"built", "running", "returned"}
    /\ \A i \in 1..Len(log) : log[i].ev # "logx.Close"
    /\ log' = Append(log, LogEntry("logx.Close", "nil"))
    /\ UNCHANGED <<server, err, runOpts, phase, lastCall, served, panicked,
                   builderVars, mwVars>>

Next ==
    \/ \E setUp \in SetUpResults, opts \in SeqsUpTo(RunOptions, MaxRunOpts) :
           CallNewServer(setUp, opts)
    \/ \E setUp \in SetUpResults, opts \in SeqsUpTo(RunOptions, MaxRunOpts) :
           CallMustNewServer(setUp, opts)
    \/ Start
    \/ \E result \in StartResults : StartReturn(result)
    \/ Stop

Spec == Init /\ [][Next]_vars

-----------------------------------------------------------------------------
(* Properties of the server *)

Constructed == phase \in {"built", "running", "returned", "panicked"}

Setters(ctor) == {i \in 1..Len(runOpts) : runOpts[i].ctor = ctor}
Latest(S) == CHOOSE i \in S : \A j \in S : j <= i
\* The value given by the last option of runOpts made by ctor, nil if none.
LastGiven(ctor) ==
    IF Setters(ctor) = {} THEN "nil" ELSE runOpts[Latest(Setters(ctor))].value

\* C5: the TLS configuration, the unauthorized callback and the unsigned
\* callback of the engine are each the value of the last RunOption that sets
\* that field.
C5_LastWriterWins ==
    Constructed =>
        /\ server.ngin.tlsConfig = LastGiven("WithTLSConfig")
        /\ server.ngin.unauthorizedCallback = LastGiven("WithUnauthorizedCallback")
        /\ server.ngin.unsignedCallback = LastGiven("WithUnsignedCallback")

\* Two WithTLSConfig options: the later value is kept, the callbacks stay unset.
C5_Witness ==
    /\ phase = "built"
    /\ runOpts = <<WithTLSConfig("tls1"), WithTLSConfig("tls2")>>
    /\ server.ngin.tlsConfig = "tls2"
    /\ server.ngin.unauthorizedCallback = "nil"
    /\ server.ngin.unsignedCallback = "nil"

\* C6: with WithNotFoundHandler and WithNotAllowedHandler options (and no
\* WithRouter option), the router the server is started with carries the
\* handler of the last WithNotFoundHandler and of the last
\* WithNotAllowedHandler option.
C6_FallbackHandlersIndependent ==
    (Constructed /\ Setters("WithRouter") = {}) =>
        /\ Setters("WithNotFoundHandler") # {} =>
               server.opts.start.router.notFound = LastGiven("WithNotFoundHandler")
        /\ Setters("WithNotAllowedHandler") # {} =>
               server.opts.start.router.notAllowed = LastGiven("WithNotAllowedHandler")

Started == phase \in {"returned", "panicked"}
StartResult == log[CHOOSE i \in 1..Len(log) : log[i].ev = "returned"].err
Logged(what) == {i \in 1..Len(log) : log[i].ev = what}

\* C7: Start returns without logging or escalating when the start strategy
\* returns nil or http.ErrServerClosed; on any other error it logs the error
\* and then escalates it.
C7_StartClassifiesError ==
    Started =>
        /\ StartResult \in {"nil", "http.ErrServerClosed"} =>
               /\ phase = "returned"
               /\ Logged("logx.Error") = {}
               /\ Logged("panic") = {}
        /\ StartResult \notin {"nil", "http.ErrServerClosed"} =>
               /\ phase = "panicked"
               /\ \E i \in Logged("logx.Error"), j \in Logged("panic") :
                      /\ i < j
                      /\ log[i].err = StartResult
                      /\ log[j].err = StartResult

\* A failed listen: logged, then escalated.
C7_Witness ==
    /\ phase = "panicked"
    /\ log = <<LogEntry("Start", "nil"),
               LogEntry("returned", "listen failed"),
               LogEntry("logx.Error", "listen failed"),
               LogEntry("panic", "listen failed")>>

-----------------------------------------------------------------------------
(* Registering routes on a built server, and requests to them *)

\* The engine is handed the RouteSet as constructed, before any option ran.
AddRoutes_EngineFirst(rs, opts, srv) ==
    LET res == ApplyOptions(opts, featuredRoutes(rs))
    IN  IF res.ok
        THEN [ok |-> TRUE, r |-> res.r,
              server |-> [srv EXCEPT !.ngin = EngineAddRoutes(@, featuredRoutes(rs))]]
        ELSE [ok |-> FALSE, r |-> res.r, server |-> srv]

\* s.AddRoutes(rs, opts...): the options are applied to featuredRoutes{routes:
\* rs} in order and the result is handed to the engine; a panicking option
\* unwinds the call before the engine is reached. r is the call's local
\* RouteSet as the call left it.
AddRoutes(rs, opts, srv) ==
    LET res == ApplyOptions(opts, featuredRoutes(rs))
    IN  IF res.ok
        THEN [ok |-> TRUE, r |-> res.r,
              server |-> [srv EXCEPT !.ngin = EngineAddRoutes(@, res.r)]]
        ELSE [ok |-> FALSE, r |-> res.r, server |-> srv]

\* s.AddRoute(r, opts...)
AddRoute(route, opts, srv) == AddRoutes(<<route>>, opts, srv)

\* The token verifier: a token verifies against the secret it was signed with.
Verify(token, secret) == token = secret

\* The authentication decorator of a RouteSet, on one request: the secrets
\* tried, in order, and whether the request passes.
Authorize(jwt, token) ==
    IF ~jwt.enabled THEN [attempts |-> <<>>, passed |-> TRUE]
    ELSE IF Verify(token, jwt.secret) THEN [attempts |-> <<"secret">>, passed |-> TRUE]
    ELSE IF jwt.prevSecret # <<>>
         THEN [attempts |-> <<"secret", "prevSecret">>,
               passed |-> Verify(token, jwt.prevSecret)]
         ELSE [attempts |-> <<"secret">>, passed |-> FALSE]

ShortSecret == Rep("s", MinSecretLen - 1)
GoodSecret == Rep("s", MinSecretLen)

OtherSecret == Rep("t", MinSecretLen)

AddOptions ==
    {OptJwt(ShortSecret), OptJwt(OtherSecret),
     OptJwtTransition(GoodSecret, <<"p">>),
     OptJwtTransition(ShortSecret, <<"p">>), OptPrefix(API)}

\* The secrets requests' tokens are signed with; <<>> is a request without one.
Tokens == {GoodSecret, OtherSecret, <<"p">>, <<>>}

InitAdd ==
    /\ runOpts = <<WithUnauthorizedCallback("unauthorized1")>>
    /\ server = NewServer("nil", runOpts).server
    /\ err = "nil"
    /\ log = <<>>
    /\ phase = "built"
    /\ lastCall = NoCall
    /\ served = NoRequest
    /\ panicked = FALSE
    /\ BuilderIdle /\ MwIdle

CallAddRoutes(rs, opts) ==
    /\ phase = "built" /\ ~panicked
    /\ Len(server.ngin.routes) < MaxAdds
    /\ LET res == AddRoutes(rs, opts, server)
       IN  /\ server' = res.server
           /\ panicked' = ~res.ok
           /\ lastCall' = [fn |-> "AddRoutes", rs |-> rs, opts |-> opts,
                           ok |-> res.ok, r |-> res.r]
    /\ UNCHANGED <<err, runOpts, log, phase, served, builderVars, mwVars>>

CallAddRoute(route, opts) ==
    /\ phase = "built" /\ ~panicked
    /\ Len(server.ngin.routes) < MaxAdds
    /\ LET res == AddRoute(route, opts, server)
       IN  /\ server' = res.server
           /\ panicked' = ~res.ok
           /\ lastCall' = [fn |-> "AddRoute", rs |-> <<route>>, opts |-> opts,
                           ok |-> res.ok, r |-> res.r]
    /\ UNCHANGED <<err, runOpts, log, phase, served, builderVars, mwVars>>

\* A request for route i of registered RouteSet k carrying token (and a valid
\* signature): it reaches the route's handler or the unauthorized callback.
Serve(k, i, token) ==
    /\ phase = "running"
    /\ ~served.made
    /\ LET auth == Authorize(server.ngin.routes[k].jwt, token)
       IN  served' = [made |-> TRUE, set |-> k, route |-> i, token |-> token,
                      attempts |-> auth.attempts,
                      by |-> IF auth.passed THEN "handler" ELSE "unauthorized",
                      callback |-> IF auth.passed THEN ""
                                   ELSE server.ngin.unauthorizedCallback]
    /\ UNCHANGED <<server, err, runOpts, log, phase, lastCall, panicked,
                   builderVars, mwVars>>

\* The response is written and the request is over.
Respond ==
    /\ served.made
    /\ served' = NoRequest
    /\ UNCHANGED <<server, err, runOpts, log, phase, lastCall, panicked,
                   builderVars, mwVars>>

NextAdd ==
    \/ \E rs \in RouteLists, opts \in SeqsUpTo(AddOptions, MaxOpts) :
           CallAddRoutes(rs, opts)
    \/ \E opts \in SeqsUpTo(AddOptions, MaxOpts) :
           CallAddRoute(Route("GET", USERS, H1), opts)
    \/ \E k \in 1..Len(server.ngin.routes) :
           \E i \in 1..Len(server.ngin.routes[k].routes), token \in Tokens :
               Serve(k, i, token)
    \/ Start
    \/ Respond

SpecAdd == InitAdd /\ [][NextAdd]_vars

\* The options of the last call that configure authentication.
AuthOptions ==
    {i \in 1..Len(lastCall.opts) : lastCall.opts[i].kind \in {"WithJwt", "WithJwtTransition"}}
\* A request was served by the RouteSet the last call registered, and that
\* call gave exactly one authentication option.
ServedWithAuthConfig ==
    /\ served.made /\ lastCall.ok
    /\ served.set = Len(server.ngin.routes)
    /\ Cardinality(AuthOptions) = 1
ConfiguredAuth == lastCall.opts[CHOOSE i \in AuthOptions : TRUE]

\* C4: with auth enabled by AuthConfig{secret, prevSecret}, a request reaches
\* the handler iff its token verifies against secret, or that fails, prevSecret
\* is non-empty and the token verifies against prevSecret; prevSecret is tried
\* only after secret failed; a request invalid under both goes to the
\* unauthorized callback. With auth disabled every request reaches the handler.
C4_TwoSecretFallback ==
    /\ ServedWithAuthConfig =>
           LET secret == ConfiguredAuth.secret
               prevSecret == ConfiguredAuth.prevSecret
               token == served.token
           IN  /\ served.by = "handler" <=>
                      \/ token = secret
                      \/ token # secret /\ prevSecret # <<>> /\ token = prevSecret
               /\ "prevSecret" \in {served.attempts[j] : j \in 1..Len(served.attempts)} =>
                      /\ served.attempts = <<"secret", "prevSecret">>
                      /\ token # secret
               /\ served.by # "handler" =>
                      /\ served.by = "unauthorized"
                      /\ served.callback = server.ngin.unauthorizedCallback
    /\ (served.made /\ lastCall.ok /\ served.set = Len(server.ngin.routes)
            /\ AuthOptions = {}) =>
           served.by = "handler"

\* A token of the previous secret is accepted after the current one failed.
C4_Witness ==
    /\ ServedWithAuthConfig
    /\ ConfiguredAuth = OptJwtTransition(GoodSecret, <<"p">>)
    /\ served.token = <<"p">>
    /\ served.attempts = <<"secret", "prevSecret">>
    /\ served.by = "handler"

-----------------------------------------------------------------------------
(* Further properties of middleware composition *)

\* C11: WithMiddleware(mw, routes) returns as many routes, in the same order,
\* route i with the method and path of input route i and the handler
\* mw(handler i); the input routes are as they were before the call.
C11_WithMiddlewareWrapsEach ==
    [][mwPc' = "wrapped" =>
          /\ rsIn' = rsIn
          /\ Len(rsOut') = Len(rsIn)
          /\ \A i \in 1..Len(rsIn) :
                 /\ rsOut'[i].Method = rsIn[i].Method
                 /\ rsOut'[i].Path = rsIn[i].Path
                 /\ rsOut'[i].Handler.base = rsIn[i].Handler.base
                 /\ rsOut'[i].Handler.wraps = <<mw'>> \o rsIn[i].Handler.wraps]_vars

\* Two routes wrapped by m2; the input handlers are still unwrapped.
C11_Witness ==
    /\ mwPc = "wrapped"
    /\ mw = "m2"
    /\ Len(rsOut) = 2
    /\ rsOut[2].Handler = [base |-> "h2", wraps |-> <<"m2">>]
    /\ rsIn[2].Handler = [base |-> "h2", wraps |-> <<>>]

\* C12: WithMiddlewares with no middleware returns the routes unchanged.
C12_NoMiddlewaresIsIdentity ==
    (mwPc = "composed" /\ ms = <<>>) =>
        /\ rsOut = rsIn
        /\ rsIn \in RouteLists

\* Two routes through WithMiddlewares with an empty middleware sequence.
C12_Witness ==
    /\ mwPc = "composed"
    /\ ms = <<>>
    /\ Len(rsOut) = 2
    /\ rsOut[1].Handler = H1
    /\ rsOut[2].Handler = H2


-----------------------------------------------------------------------------
(* Further properties of route registration *)

\* The RouteSet left after opts ran on fr one after another, first to last.
RECURSIVE FoldLeft(_, _)
FoldLeft(opts, fr) ==
    IF opts = <<>> THEN fr
    ELSE ApplyOption(Last(opts), FoldLeft(Front(opts), fr)).r

\* The step is a call of AddRoutes or AddRoute.
RegistrationCall ==
    /\ phase = "built" /\ ~panicked
    /\ \/ lastCall' # lastCall
       \/ server' # server

\* C13: each successful AddRoutes(routes, opts...) hands the engine exactly one
\* RouteSet, the left-to-right fold of opts over the RouteSet {routes, auth
\* disabled, signature disabled, priority false}, and nothing else of the
\* server changes; AddRoute(r, opts...) does what AddRoutes([r], opts...) does.
C13_AddRoutesHandsFoldedSet ==
    [][(RegistrationCall /\ lastCall'.ok) =>
          /\ server'.ngin.routes =
                 Append(server.ngin.routes,
                        FoldLeft(lastCall'.opts,
                                 [routes |-> lastCall'.rs,
                                  priority |-> FALSE,
                                  jwt |-> [enabled |-> FALSE, secret |-> <<>>,
                                           prevSecret |-> <<>>],
                                  signature |-> [enabled |-> FALSE, Strict |-> FALSE,
                                                 Expiry |-> 0, PrivateKeys |-> <<>>]]))
          /\ [server' EXCEPT !.ngin.routes = server.ngin.routes] = server
          /\ lastCall'.fn = "AddRoute" =>
                 /\ Len(lastCall'.rs) = 1
                 /\ server' = AddRoutes(lastCall'.rs, lastCall'.opts, server).server]_vars

\* Two routes registered with a JWT option and then a transition option: the
\* engine holds one RouteSet, with the transition's secret.
C13_Witness ==
    /\ lastCall.fn = "AddRoutes" /\ lastCall.ok
    /\ Len(lastCall.rs) = 2
    /\ lastCall.opts = <<OptJwt(OtherSecret), OptJwtTransition(GoodSecret, <<"p">>)>>
    /\ Len(server.ngin.routes) = 1
    /\ server.ngin.routes[1].jwt =
           [enabled |-> TRUE, secret |-> GoodSecret, prevSecret |-> <<"p">>]
    /\ server.ngin.routes[1].routes = lastCall.rs

-----------------------------------------------------------------------------
(* Further properties of the builder phase *)

\* The step is a call of an option of the given kind.
OptionStep(kind) ==
    /\ applied' = Append(applied, Last(applied'))
    /\ Last(applied').kind = kind

\* C14: WithSignature(config) enables the signature check and copies strict,
\* expiry and privateKeys from config as given; routes, auth configuration and
\* priority stay as they were; of two WithSignature calls the later one's
\* configuration is the one left.
C14_SignatureSetsConfigOnly ==
    [][OptionStep("WithSignature") =>
          LET config == Last(applied').signature
          IN  /\ ~panicked'
              /\ r'.signature.enabled
              /\ r'.signature.Strict = config.Strict
              /\ r'.signature.Expiry = config.Expiry
              /\ r'.signature.PrivateKeys = config.PrivateKeys
              /\ r'.routes = r.routes
              /\ r'.jwt = r.jwt
              /\ r'.priority = r.priority]_vars

\* Two WithSignature calls that differ in every field, after which the
\* second one's configuration is in force.
C14_Witness ==
    /\ Len(applied) = 2
    /\ applied[1] = OptSignature([Strict |-> TRUE, Expiry |-> 60,
                                  PrivateKeys |-> <<"key1">>])
    /\ applied[2] = OptSignature([Strict |-> FALSE, Expiry |-> 3600,
                                  PrivateKeys |-> <<"key1", "key2">>])
    /\ r.signature = [enabled |-> TRUE, Strict |-> FALSE, Expiry |-> 3600,
                      PrivateKeys |-> <<"key1", "key2">>]
    /\ Len(r.routes) = 2

-----------------------------------------------------------------------------
(* Further properties of the server *)

EngineStarts == Logged("Start") \cup Logged("StartWithRouter")
RouterOptions == {i \in 1..Len(runOpts) : runOpts[i].ctor \in RouterCtors}

\* C15: Start invokes exactly one engine start operation: Engine.Start() when
\* no router-setting option (WithRouter, WithNotFoundHandler,
\* WithNotAllowedHandler) was given to NewServer, otherwise
\* Engine.StartWithRouter(r) with r the router of the last router-setting
\* option; no other router is started, and nothing is started before Start.
C15_StartRunsLastStrategy ==
    /\ phase \in {"new", "built", "failed", "exited"} => EngineStarts = {}
    /\ phase \in {"running", "returned", "panicked"} =>
           /\ Cardinality(EngineStarts) = 1
           /\ LET started == log[CHOOSE i \in EngineStarts : TRUE]
              IN  IF RouterOptions = {}
                  THEN started.ev = "Start"
                  ELSE /\ started.ev = "StartWithRouter"
                       /\ started.router = runOpts[Latest(RouterOptions)].router

\* A not-found handler option and then a custom router: the server is
\* started with the custom router, not with the router of the first option.
C15_Witness ==
    /\ phase = "running"
    /\ runOpts = <<WithNotFoundHandler("notFound1"), WithRouter(CustomRouter)>>
    /\ log = <<[ev |-> "StartWithRouter", err |-> "nil", router |-> CustomRouter]>>

\* The server that calling opts on srv one after another, first to last, leaves.
RECURSIVE FoldRunOptions(_, _)
FoldRunOptions(opts, srv) ==
    IF opts = <<>> THEN srv
    ELSE ApplyRunOption(Last(opts), FoldRunOptions(Front(opts), srv))

\* C16: when SetUp fails, NewServer returns that error and no server: no
\* engine is created and no RunOption is applied, and MustNewServer ends the
\* process with that error; when SetUp succeeds, NewServer returns, with no
\* error, the server that applying every RunOption once in the given order to
\* a server with a fresh engine and the default start strategy leaves.
C16_SetUpFailureBuildsNothing ==
    /\ phase \in {"failed", "exited"} =>
           /\ err = "setup failed"
           /\ server = NilServer
           /\ server.nil
    /\ phase = "failed" => log = <<>>
    /\ phase = "exited" =>
           /\ log = <<LogEntry("log.Fatal", "setup failed")>>
           /\ ~ENABLED Next
    /\ Constructed =>
           /\ err = "nil"
           /\ ~server.nil
           /\ [server EXCEPT !.ngin.routes = <<>>] =
                  FoldRunOptions(runOpts,
                      [nil |-> FALSE,
                       ngin |-> [tlsConfig |-> "nil", unauthorizedCallback |-> "nil",
                                 unsignedCallback |-> "nil", routes |-> <<>>],
                       opts |-> [start |-> [op |-> "Start", router |-> NewRouter]]])

\* SetUp failed in a NewServer call that was given two options.
C16_Witness ==
    /\ phase = "failed"
    /\ runOpts = <<WithTLSConfig("tls1"), WithRouter(CustomRouter)>>
    /\ server.nil
    /\ err = "setup failed"

\* The options called so far, after the step, that are of the given kind.
Called(kind) == {i \in 1..Len(applied') : applied'[i].kind = kind}

\* C18: WithJwt writes auth.enabled and auth.secret only and leaves
\* prevSecret as it was: after WithJwtTransition(s1, p) and a later WithJwt(s2),
\* with no WithJwtTransition after it, auth is {enabled, s2, p}; prevSecret
\* changes in WithJwtTransition steps only; no option disables auth again.
C18_JwtKeepsPrevSecret ==
    [][/\ (OptionStep("WithJwt") /\ ~panicked') =>
              /\ r'.jwt = [enabled |-> TRUE,
                           secret |-> Last(applied').secret,
                           prevSecret |-> r.jwt.prevSecret]
              /\ [r' EXCEPT !.jwt = r.jwt] = r
       /\ (/\ ~panicked'
           /\ Called("WithJwt") # {} /\ Called("WithJwtTransition") # {}
           /\ Latest(Called("WithJwtTransition")) < Latest(Called("WithJwt"))) =>
              r'.jwt = [enabled |-> TRUE,
                        secret |-> applied'[Latest(Called("WithJwt"))].secret,
                        prevSecret |->
                            applied'[Latest(Called("WithJwtTransition"))].prevSecret]
       /\ r'.jwt.prevSecret # r.jwt.prevSecret => OptionStep("WithJwtTransition")
       /\ r.jwt.enabled => r'.jwt.enabled]_vars

\* A transition to an 8-character secret with previous secret p, then
\* WithJwt with a 9-character secret: p is still the previous secret.
C18_Witness ==
    /\ ~panicked
    /\ applied = <<OptJwtTransition(Rep("s", MinSecretLen), <<"p">>),
                   OptJwt(Rep("s", MinSecretLen + 1))>>
    /\ r.jwt = [enabled |-> TRUE, secret |-> Rep("s", MinSecretLen + 1),
                prevSecret |-> <<"p">>]
    /\ Len(r.routes) = 2

-----------------------------------------------------------------------------
(* Registration with a failing option *)

\* The options of opts that fail: JWT options whose secret is too short.
FailingOptions(opts) ==
    {i \in 1..Len(opts) :
        /\ opts[i].kind \in {"WithJwt", "WithJwtTransition"}
        /\ Len(opts[i].secret) < MinSecretLen}

\* C17: a WithJwt or WithJwtTransition option whose secret is shorter than
\* MinSecretLen fails before it changes any field of the RouteSet, which is
\* left as the options before it made it (auth enabled, secret and prevSecret
\* included); an AddRoutes or AddRoute call with such an option among its
\* options, at any position, fails without handing anything to the engine,
\* and the server is as it was before the call.
C17_FailedOptionRegistersNothing ==
    [][(RegistrationCall /\ FailingOptions(lastCall'.opts) # {}) =>
          LET opts == lastCall'.opts
              first == CHOOSE i \in FailingOptions(opts) :
                           \A j \in FailingOptions(opts) : i <= j
              before == FoldLeft(SubSeq(opts, 1, first - 1),
                                 featuredRoutes(lastCall'.rs))
          IN  /\ ~lastCall'.ok
              /\ panicked'
              /\ lastCall'.r = before
              /\ lastCall'.r.jwt = before.jwt
              /\ server'.ngin.routes = server.ngin.routes
              /\ server' = server]_vars

\* A transition option with a short secret after a JWT option: the call
\* failed, the RouteSet has the JWT option's configuration and the engine
\* has no RouteSet.
C17_Witness ==
    /\ lastCall.fn = "AddRoutes" /\ ~lastCall.ok /\ panicked
    /\ lastCall.opts = <<OptJwt(OtherSecret), OptJwtTransition(ShortSecret, <<"p">>)>>
    /\ lastCall.r.jwt = [enabled |-> TRUE, secret |-> OtherSecret, prevSecret |-> <<>>]
    /\ Len(lastCall.r.routes) = 2
    /\ server.ngin.routes = <<>>

=============================================================================
